---------------------------- MODULE Spec2Model ----------------------------
(***************************************************************************)
(* A model of the appointment sniper (eng540/asniper): the captcha solver  *)
(* of captcha.py and the single-session booking flow of                    *)
(* elite_sniper_v2.py (version 2.1.0) and of its predecessor editbot.py    *)
(* (version 2.0.0).  Texts are sequences of one-character strings.         *)
(***************************************************************************)
EXTENDS Naturals, Sequences, FiniteSets, TLC

(***************************************************************************)
(* Program constants.                                                      *)
(***************************************************************************)
SESSION_MAX_AGE == 300
SESSION_MAX_IDLE == 12
BLACK_SIZE == 2000
max_attempts == 5
internal_max_retries == 3
NAV_RETRIES == 2
BREAKER == 2
NUM_MONTHS == 4
FORM_MAX_ATTEMPTS == 5
FORM_MAX_AGE == 1800
NUM_WORKERS == 3
submit_max_attempts == 5
_pre_solve_timeout == 30
max_retries == 10
min_runtime == 60

(***************************************************************************)
(* Bounds of the model.                                                    *)
(***************************************************************************)
\* cycles of the persistent runner that are explored (max_cycles is 1000)
MaxCycles == 2
\* day links a served calendar page may carry
MaxLinks == 2
\* seconds that pass while the flow blocks once (a sleep, a wait for the operator)
Slice == 1000
\* attempts of the form captcha loop explored in MANUAL mode (the code allows 1000)
MaxManualTries == 6
\* increments of the shared captchas_solved counter that are explored
MaxSolved == 2
\* seconds past the expiry of a cached code that are told apart
MaxOverAge == 2
\* the longest single lapse of time between two calls on the cache
MaxLapse == 15
\* manual requests that are followed
MaxRequests == 3
MaxText == 9
MaxShort == 4
MaxStarts == 12
MaxCalls == 6

Min(a, b) == IF a <= b THEN a ELSE b

(***************************************************************************)
(* Python text helpers.                                                    *)
(***************************************************************************)
Whitespace == {" ", "\t"}
Allowed == {"a", "b", "A", "1", "3", "4"}

Lower(c) == IF c = "A" THEN "a" ELSE c

RECURSIVE lstrip(_)
lstrip(s) ==
    IF s = <<>> THEN s
    ELSE IF Head(s) \in Whitespace THEN lstrip(Tail(s)) ELSE s

RECURSIVE rstrip(_)
rstrip(s) ==
    IF s = <<>> THEN s
    ELSE IF s[Len(s)] \in Whitespace THEN rstrip(SubSeq(s, 1, Len(s) - 1)) ELSE s

strip(s) == rstrip(lstrip(s))

\* str.replace(" ", "")
replace_spaces(s) == SelectSeq(s, LAMBDA c : c # " ")

lower(s) == [i \in 1..Len(s) |-> Lower(s[i])]

CharSet(s) == {s[i] : i \in 1..Len(s)}

(***************************************************************************)
(* EnhancedCaptchaSolver.validate_captcha_result: <<is_valid, status>>.    *)
(***************************************************************************)
black_patterns ==
    { <<"4","3","3","3">>, <<"3","3","3">>, <<"4","4","4">>,
      <<"1","1","1","1">>, <<"0","0","0","0">>, <<"4","4","4","4">>,
      <<"3","3","3","3">> }

\* the validator with some of its tests left out: without same no text counts
\* as one repeated character, without six, aging or long a text of that
\* length falls through to the last return
validate_variant(code0, same, six, aging, long) ==
    IF code0 = <<>> THEN <<FALSE, "EMPTY">>
    ELSE
      LET code == replace_spaces(strip(code0))
          code_len == Len(code)
          is_all_same == same /\ Cardinality(CharSet(code)) = 1
      IN  IF code \in black_patterns \/ is_all_same THEN <<FALSE, "BLACK_DETECTED">>
          ELSE IF code_len < 4 THEN <<FALSE, "TOO_SHORT">>
          ELSE IF six /\ code_len = 6 THEN <<TRUE, "VALID">>
          ELSE IF aging /\ code_len = 7 THEN <<TRUE, "AGING_7">>
          ELSE IF aging /\ code_len = 8 THEN <<TRUE, "AGING_8">>
          ELSE IF long /\ code_len > 8 THEN <<FALSE, "TOO_LONG">>
          ELSE <<FALSE, "TOO_SHORT">>

validate_without_six(code0) == validate_variant(code0, TRUE, FALSE, TRUE, TRUE)
validate_without_all_same(code0) == validate_variant(code0, FALSE, TRUE, TRUE, TRUE)
validate_without_aging(code0) == validate_variant(code0, TRUE, TRUE, FALSE, TRUE)
validate_without_long(code0) == validate_variant(code0, TRUE, TRUE, TRUE, FALSE)

validate_captcha_result(code0) ==
    IF code0 = <<>> THEN <<FALSE, "EMPTY">>
    ELSE
      LET code == replace_spaces(strip(code0))
          code_len == Len(code)
          is_all_same == Cardinality(CharSet(code)) = 1
      IN  IF code \in black_patterns \/ is_all_same THEN <<FALSE, "BLACK_DETECTED">>
          ELSE IF code_len < 4 THEN <<FALSE, "TOO_SHORT">>
          ELSE IF code_len = 6 THEN <<TRUE, "VALID">>
          ELSE IF code_len = 7 THEN <<TRUE, "AGING_7">>
          ELSE IF code_len = 8 THEN <<TRUE, "AGING_8">>
          ELSE IF code_len > 8 THEN <<FALSE, "TOO_LONG">>
          ELSE <<FALSE, "TOO_SHORT">>

\* a cleaner that keeps every character that is not a blank
_clean_ocr_result_unfiltered(text) ==
    IF text = <<>> THEN <<>>
    ELSE replace_spaces(strip(text))

(***************************************************************************)
(* EnhancedCaptchaSolver._clean_ocr_result.                                *)
(***************************************************************************)
_clean_ocr_result(text) ==
    IF text = <<>> THEN <<>>
    ELSE SelectSeq(replace_spaces(strip(text)), LAMBDA c : c \in Allowed)

(***************************************************************************)
(* EnhancedCaptchaSolver.detect_black_captcha.                             *)
(***************************************************************************)
detect_black_captcha(image_len) == image_len < BLACK_SIZE


(***************************************************************************)
(* EnhancedCaptchaSolver.__init__: the solver's flags for an execution     *)
(* mode.  ddddocr tells whether the OCR engine could be initialised.       *)
(***************************************************************************)
Modes == {"AUTO", "MANUAL", "HYBRID", "DEBUG"}

NewSolver(m, ddddocr, capsolver_enabled, manual_enabled) ==
    [ mode        |-> m,
      manual_only |-> (m = "MANUAL"),
      auto_only   |-> (m = "AUTO"),
      ocr         |-> (ddddocr /\ m # "MANUAL"),
      capsolver   |-> capsolver_enabled,
      manual      |-> manual_enabled ]

Solvers ==
    { NewSolver(m, d, c, h) : m \in Modes, d \in BOOLEAN, c \in BOOLEAN, h \in BOOLEAN }

(***************************************************************************)
(* EnhancedCaptchaSolver.solve on an image of image_len bytes.  cap is the *)
(* <<text, status>> answer the remote API would give, raw the text the     *)
(* local OCR engine would read, exc whether the engine raises.  The result *)
(* also counts the strategy calls made.                                    *)
(***************************************************************************)
SolveResult(c, st, nc, no) == [code |-> c, status |-> st, cap_calls |-> nc, ocr_calls |-> no]

solve_local(raw, exc, nc) ==
    IF exc THEN SolveResult(<<>>, "ERROR", nc, 1)
    ELSE LET result == _clean_ocr_result(lower(strip(replace_spaces(raw))))
             v == validate_captcha_result(result)
         IN  IF v[1] THEN SolveResult(result, v[2], nc, 1)
             ELSE SolveResult(<<>>, "ALL_FAILED", nc, 1)

solve(s, image_len, cap, raw, exc) ==
    IF s.manual_only THEN SolveResult(<<>>, "MANUAL_REQUIRED", 0, 0)
    ELSE IF ~s.ocr THEN SolveResult(<<>>, "NO_OCR", 0, 0)
    ELSE IF detect_black_captcha(image_len) THEN SolveResult(<<>>, "BLACK_IMAGE", 0, 0)
    ELSE IF s.capsolver
         THEN LET code == _clean_ocr_result(cap[1])
              IN  IF cap[1] # <<>> /\ cap[2] = "SUCCESS" /\ validate_captcha_result(code)[1]
                  THEN SolveResult(code, "CAPSOLVER", 1, 0)
                  ELSE solve_local(raw, exc, 1)
         ELSE solve_local(raw, exc, 0)

(***************************************************************************)
(* What the outside world may hand to the flow.                            *)
(***************************************************************************)
T4 == <<"a", "b", "1", "3">>
T6 == <<"a", "b", "1", "3", "4", "a">>
T6u == <<"A", "b", " ", "1", "3", "4", "a">>
OcrTexts == {T4, T6u}
CapAnswers == {<<<<>>, "HTTP_500">>, <<T6, "SUCCESS">>}
ManualReplies == {<<"b", "a", "1", "3", "4", "a">>}
\* byte sizes of fetched captcha images; 0 stands for no image found
ImageSizes == {0, 1999, 2000}

(***************************************************************************)
(* Pages as the classifier and the solver read them.  A page that was      *)
(* served but not read yet is unread: its content shows when it is read.   *)
(***************************************************************************)
Pg(d, sl, na, w, c) ==
    [days |-> d, slots |-> sl, noAppt |-> na, wrong |-> w, captcha |-> c, unread |-> FALSE]
NoPage == Pg(0, 0, FALSE, FALSE, FALSE)
Unread == [NoPage EXCEPT !.unread = TRUE]
MonthPages ==
    { Pg(d, 0, FALSE, FALSE, FALSE) : d \in 1..MaxLinks }
    \cup { Pg(0, 0, TRUE, FALSE, FALSE), Pg(0, 0, FALSE, TRUE, TRUE),
           Pg(0, 0, FALSE, FALSE, TRUE), NoPage }
DayPages == { Pg(0, sl, FALSE, FALSE, FALSE) : sl \in 0..1 }
FormPages == { Pg(0, 0, FALSE, FALSE, c) : c \in BOOLEAN }
Shown(p) == IF p.unread THEN MonthPages ELSE {p}

\* a classifier that looks for the no-appointments phrase before the day links
_analyze_page_state_phrase_first(p, exc) ==
    IF exc THEN "UNKNOWN"
    ELSE IF p.noAppt THEN "EMPTY_CALENDAR"
    ELSE IF p.days > 0 THEN "SLOTS_FOUND"
    ELSE IF p.wrong THEN "WRONG_CODE"
    ELSE IF p.captcha THEN "CAPTCHA"
    ELSE "UNKNOWN"

(***************************************************************************)
(* EliteSniperV2._analyze_page_state; exc: reading the page content raised.*)
(***************************************************************************)
_analyze_page_state(p, exc) ==
    IF exc THEN "UNKNOWN"
    ELSE IF p.days > 0 THEN "SLOTS_FOUND"
    ELSE IF p.noAppt THEN "EMPTY_CALENDAR"
    ELSE IF p.wrong THEN "WRONG_CODE"
    ELSE IF p.captcha THEN "CAPTCHA"
    ELSE "UNKNOWN"

(***************************************************************************)
(* TelegramCaptchaHandler.request_manual_solution: the answers a request   *)
(* may get, <<>> for None (photo not sent, or no reply before the timeout).*)
(***************************************************************************)
request_manual_solution(s) == IF s.manual THEN ManualReplies \cup {<<>>} ELSE {<<>>}

(***************************************************************************)
(* EnhancedCaptchaSolver.solve_from_page: the set of its possible results  *)
(* on page p.  A result also tells how many solve calls and relay requests *)
(* were made, whether a fetched image was black, and whether a solve call  *)
(* or a relay request was made after a black image had been fetched.       *)
(***************************************************************************)
AutoSkip == {"TOO_SHORT", "TOO_LONG", "NO_OCR", "MANUAL_REQUIRED"}

\* needless: the relay was asked although the automatic result was valid;
\* dropped: a valid automatic code was given up when the relay gave no reply
Acc0 == [code |-> <<>>, status |-> "", solves |-> 0, relays |-> 0,
         black |-> FALSE, late |-> FALSE, needless |-> FALSE, dropped |-> FALSE]

SfpResult(ok, c, st, acc) ==
    [success |-> ok, code |-> c, status |-> st, solves |-> acc.solves,
     relays |-> acc.relays, black |-> acc.black, late |-> acc.late,
     needless |-> acc.needless, dropped |-> acc.dropped]

sfp_fill(acc) ==
    { SfpResult(TRUE, acc.code, acc.status, acc), SfpResult(FALSE, <<>>, "FILL_ERROR", acc) }

\* the results solve() may give on one image
solve_results(s, img) ==
    { solve(s, img, cap, raw, exc) : cap \in CapAnswers, raw \in OcrTexts, exc \in BOOLEAN }

RECURSIVE sfp_attempt(_, _, _, _)
sfp_attempt(s, i, img, acc) ==
    IF i = internal_max_retries THEN sfp_fill(acc)
    ELSE IF img = 0 THEN { SfpResult(FALSE, <<>>, "NO_IMAGE", acc) }
    ELSE UNION { LET a1 == [acc EXCEPT !.code = r.code, !.status = r.status,
                                       !.solves = @ + 1,
                                       !.late = @ \/ acc.black,
                                       !.black = @ \/ detect_black_captcha(img)]
                     auto_valid == r.code # <<>> /\ r.status \notin AutoSkip
                     a2 == [a1 EXCEPT !.relays = @ + 1, !.late = @ \/ a1.black,
                                      !.needless = @ \/ auto_valid]
                 IN  IF s.auto_only
                     THEN IF r.status = "TOO_SHORT" /\ i < internal_max_retries - 1
                          THEN UNION { sfp_attempt(s, i + 1, img2, a1) : img2 \in ImageSizes }
                          ELSE IF r.code = <<>> \/ r.status \in AutoSkip
                               THEN { SfpResult(FALSE, <<>>, "AUTO_SKIP_" \o r.status, a1) }
                               ELSE sfp_fill(a1)
                     ELSE UNION { IF reply # <<>>
                                  THEN sfp_attempt(s, i + 1, img,
                                           [a2 EXCEPT !.code = reply, !.status = "MANUAL"])
                                  ELSE { SfpResult(FALSE, <<>>, "MANUAL_TIMEOUT",
                                           [(IF s.manual THEN a2 ELSE a1)
                                               EXCEPT !.dropped = auto_valid]) }
                                  : reply \in request_manual_solution(s) }
               : r \in solve_results(s, img) }

sfp_results ==
    [ s \in Solvers |->
        [ has_captcha \in BOOLEAN |->
            { SfpResult(FALSE, <<>>, "CHECK_FAILED", Acc0),
              SfpResult(FALSE, <<>>, "ERROR", Acc0) }
            \cup IF ~has_captcha THEN { SfpResult(TRUE, <<>>, "NO_CAPTCHA", Acc0) }
                 ELSE { SfpResult(FALSE, <<>>, "NO_INPUT", Acc0) }
                      \cup UNION { sfp_attempt(s, 0, img, Acc0) : img \in ImageSizes } ] ]

solve_from_page(s, p) == sfp_results[s][p.captcha]

(***************************************************************************)
(* The state of one EliteSniperV2 instance running its single session.     *)
(***************************************************************************)
VARIABLES
    solver,       \* self.solver: the flags fixed by EnhancedCaptchaSolver.__init__
    dry_run,      \* Config.DRY_RUN
    sniper_id,    \* self.session_id, drawn once in __init__
    stop_event,   \* self.stop_event
    paused,       \* self.paused
    success,      \* self.global_stats.success
    context,      \* the browser context: id counts create_context calls
    session,      \* the SessionState of the current context
    page,         \* what the page currently shows
    pc,           \* where the flow stands
    ev,           \* the operation the flow performed last
    cycle,        \* _run_single_session: cycle
    url_idx,      \* _run_single_session: index into month_urls
    attempt,      \* _process_month_page: attempt
    day_link,     \* index of the day link handed to _process_day_page
    form,         \* locals of solve_form_captcha_with_retry
    hist,         \* history of the running month scan
    arg,          \* arguments of a solve() call made on its own
    out           \* its result

\* the worker threads of the multi-session mode
VARIABLES
    wpc,          \* where each worker stands
    wsess,        \* each worker's context and SessionState
    wloc,         \* each worker's locals
    shared        \* state shared by the workers

\* calls followed on their own
VARIABLES
    sub,          \* a _submit_form call
    presolved,          \* the solver's pre-solved cache and the last results
    relay         \* the Telegram reply queue and the waiting sessions

\* the two launchers of the sniper
VARIABLES
    missing,      \* a required field of Config is not set
    supervisor,   \* run_elite_sniper_v2 (main.py): its locals
    manager       \* the SniperManager singleton and its run thread

poolv == <<wpc, wsess, wloc, shared>>
boot == <<missing, supervisor, manager>>
ext == <<poolv, sub, presolved, relay, boot>>

vars == <<solver, dry_run, sniper_id, stop_event, paused, success, context, session,
          page, pc, ev, cycle, url_idx, attempt, day_link, form, hist, arg, out, ext>>

cfg == <<solver, dry_run, sniper_id>>
flags == <<stop_event, paused, success>>
scan == <<attempt, day_link, form, hist>>
unit == <<arg, out>>

AgeCap == FORM_MAX_AGE + 1
IdleCap == SESSION_MAX_IDLE + 1
Durations == {0, Slice}
SniperIds == {<<"elite_v2", 1700000000, 1000>>}

\* the configurations the flow is started with: <<solver, DRY_RUN>>
RunConfigs ==
    { <<NewSolver("MANUAL", TRUE, TRUE, TRUE), TRUE>>,
      <<NewSolver("DEBUG", TRUE, TRUE, TRUE), FALSE>>,
      <<NewSolver("DEBUG", FALSE, FALSE, FALSE), FALSE>>,
      <<NewSolver("AUTO", TRUE, TRUE, TRUE), FALSE>>,
      <<NewSolver("HYBRID", TRUE, FALSE, TRUE), FALSE>> }

(***************************************************************************)
(* SessionState: age is now - created, idle is now - last activity.        *)
(***************************************************************************)
NoSession == [session_id |-> <<>>, age |-> 0, idle |-> 0, cnf |-> 0, health |-> "NONE"]
NewSession(id, worker_id) ==
    [session_id |-> <<id, worker_id>>, age |-> 0, idle |-> 0, cnf |-> 0, health |-> "CLEAN"]
Elapse(s, d) == [s EXCEPT !.age = Min(@ + d, AgeCap), !.idle = Min(@ + d, IdleCap)]
touch(s) == [s EXCEPT !.idle = 0]

NoForm == [attempt |-> 0, age |-> 0]
NoHist == [scen |-> 0, black |-> FALSE, after_black |-> FALSE]
NoArg == [image_len |-> 0, cap |-> <<<<>>, "">>, raw |-> <<>>, exc |-> FALSE]
NoOut == SolveResult(<<>>, "", 0, 0)

(***************************************************************************)
(* The worker threads: run starts workers 1..3, worker 1 is the scout, the *)
(* others are attackers.                                                   *)
(***************************************************************************)
Workers == 1..NUM_WORKERS
Scout == 1

NoWorkerSession == [open |-> FALSE, pages_loaded |-> 0]
NoLocals == [month |-> 0, days |-> FALSE, tmp |-> 0, result |-> "none"]
NoShared == [slot_event |-> FALSE, target_url |-> 0, captchas_solved |-> 0,
             increments |-> 0, server_free |-> TRUE]
PoolIdle ==
    /\ wpc = [w \in Workers |-> "none"]
    /\ wsess = [w \in Workers |-> NoWorkerSession]
    /\ wloc = [w \in Workers |-> NoLocals]
    /\ shared = NoShared

\* the page after a submit: success phrase, booking form, its fields cleared,
\* session-invalid marker
Resp(s, f, c, m) == [succ |-> s, form |-> f, cleared |-> c, marker |-> m]
NoResp == Resp(FALSE, FALSE, FALSE, FALSE)
NoSub == [attempt |-> 0, result |-> "none", submitted |-> FALSE, refreshed |-> FALSE,
          refilled |-> FALSE, last |-> NoResp]
NoRes == [success |-> FALSE, code |-> <<>>, status |-> "", relays |-> 0,
          needless |-> FALSE, dropped |-> FALSE, from_cache |-> FALSE]
\* age: seconds since _pre_solved_time, kept while a code is cached
NoCap == [code |-> <<>>, age |-> 0, status |-> "", op |-> "none", got |-> <<>>,
          expired |-> FALSE, res |-> NoRes]
\* queue: captcha_reply_queue, each reply standing for the session whose image
\* the operator answered; st, got: each session's wait and what it returned;
\* pending: images sent and not yet answered; fresh: the sessions with a reply
\* in the queue that was put there after their current image was sent
NoRelay == [queue |-> <<>>, st |-> [w \in Workers |-> "idle"],
            got |-> [w \in Workers |-> 0], pending |-> {}, reqs |-> 0, fresh |-> {}]

\* run_elite_sniper_v2 before its loop: retry_count, the snipers built and
\* run so far, what the last step was and the value returned
NoSupervisor == [pc |-> "idle", retry_count |-> 0, built |-> 0, runs |-> 0, ret |-> "none"]

\* SniperManager.__init__; threads: the snipers whose run thread has not
\* reset the manager yet, stopped: the snipers whose stop_event is set,
\* ended: the snipers whose run() has returned or raised, built: the snipers
\* constructed so far, ret: what the last start_session, stop_session or
\* get_status returned or raised, reading: a get_status call stands between
\* its two reads
NoManager == [is_running |-> FALSE, current_sniper |-> 0, threads |-> {}, stopped |-> {},
              ended |-> {}, built |-> 0, calls |-> 0, ret |-> "none", reading |-> FALSE]

BootIdle ==
    /\ missing = FALSE
    /\ supervisor = NoSupervisor
    /\ manager = NoManager

ExtInit ==
    /\ PoolIdle
    /\ sub = NoSub
    /\ presolved = NoCap
    /\ relay = NoRelay
    /\ BootIdle

Init ==
    /\ \E c \in RunConfigs : solver = c[1] /\ dry_run = c[2]
    /\ ExtInit
    /\ sniper_id \in SniperIds
    /\ stop_event = FALSE
    /\ paused = FALSE
    /\ success = FALSE
    /\ context = [id |-> 0, open |-> FALSE]
    /\ session = NoSession
    /\ page = NoPage
    /\ pc = "init"
    /\ ev = "init"
    /\ cycle = 0
    /\ url_idx = 0
    /\ attempt = 0
    /\ day_link = 0
    /\ form = NoForm
    /\ hist = NoHist
    /\ arg = NoArg
    /\ out = NoOut

(***************************************************************************)
(* EliteSniperV2.run: AUTO and HYBRID go to the worker threads, every      *)
(* other mode runs the single session.                                     *)
(***************************************************************************)
run ==
    /\ pc = "init"
    /\ pc' = IF solver.mode \in {"AUTO", "HYBRID"} THEN "multi" ELSE "start"
    /\ ev' = "run"
    /\ UNCHANGED <<cfg, ext, flags, context, session, page, cycle, url_idx, scan, unit>>

(***************************************************************************)
(* EliteSniperV2.create_context: a new context, page and SessionState.     *)
(***************************************************************************)
create_context ==
    /\ context' = [id |-> context.id + 1, open |-> TRUE]
    /\ session' = NewSession(sniper_id, 1)
    /\ page' = NoPage

close_context == context' = [context EXCEPT !.open = FALSE]

(***************************************************************************)
(* _run_single_session.                                                    *)
(***************************************************************************)
Start ==
    /\ pc = "start"
    /\ \E ok \in BOOLEAN :
         IF ok
         THEN create_context /\ pc' = "cycle_top" /\ ev' = "create"
         ELSE pc' = "done" /\ ev' = "create_failed" /\ UNCHANGED <<context, session, page>>
    /\ UNCHANGED <<cfg, ext, flags, cycle, url_idx, scan, unit>>

CycleTop ==
    /\ pc = "cycle_top"
    /\ ev' = "cycle"
    /\ IF stop_event \/ cycle = MaxCycles
       THEN pc' = "final" /\ UNCHANGED url_idx
       ELSE IF paused
            THEN pc' = "paused" /\ UNCHANGED url_idx
            ELSE pc' = "url_top" /\ url_idx' = 0
    /\ UNCHANGED <<cfg, ext, flags, context, session, page, cycle, scan, unit>>

PauseWait ==
    /\ pc = "paused"
    /\ IF paused /\ ~stop_event
       THEN /\ \E d \in Durations : session' = Elapse(session, d)
            /\ ev' = "sleep"
            /\ UNCHANGED <<pc, url_idx>>
       ELSE /\ pc' = "url_top"
            /\ url_idx' = 0
            /\ ev' = "resumed"
            /\ UNCHANGED session
    /\ UNCHANGED <<cfg, ext, flags, context, page, cycle, scan, unit>>

(***************************************************************************)
(* _run_single_session: head of the loop over month_urls, and              *)
(* _process_month_page: A. navigation.  A failed first goto leaves the     *)
(* flow in the five second sleep before the second.                        *)
(***************************************************************************)
Goto(last) ==
    \E ok \in BOOLEAN :
      IF ok
      THEN /\ page' = Unread
           /\ session' = [touch(session) EXCEPT !.cnf = 0]
           /\ pc' = "loop_top"
      ELSE /\ UNCHANGED page
           /\ IF last
              THEN /\ session' = [session EXCEPT !.cnf = @ + 1]
                   /\ pc' = "month_ret"
              ELSE /\ UNCHANGED session
                   /\ pc' = "nav"

UrlTop ==
    /\ pc = "url_top"
    /\ IF url_idx = NUM_MONTHS \/ stop_event
       THEN pc' = "cycle_sleep" /\ ev' = "url" /\ UNCHANGED <<session, page>>
       ELSE Goto(NAV_RETRIES = 1) /\ ev' = "nav_month"
    /\ UNCHANGED <<cfg, ext, flags, context, cycle, url_idx, scan, unit>>

Nav ==
    /\ pc = "nav"
    /\ Goto(TRUE)
    /\ ev' = "nav_month"
    /\ UNCHANGED <<cfg, ext, flags, context, cycle, url_idx, scan, unit>>

(***************************************************************************)
(* _process_month_page: B. head of the attempt loop and 1. forced refresh. *)
(***************************************************************************)
\* the refresh left out
forced_refresh_never(a) == FALSE

forced_refresh(a) == a > 0

LoopTop ==
    /\ pc = "loop_top"
    /\ IF attempt = max_attempts
       THEN pc' = "month_ret" /\ ev' = "exhausted" /\ UNCHANGED page
       ELSE IF forced_refresh(attempt)
            THEN \E r \in {"click", "reload", "raise"} :
                   IF r = "raise"
                   THEN pc' = "month_ret" /\ ev' = "error" /\ UNCHANGED page
                   ELSE /\ page' = Unread
                        /\ pc' = "classify"
                        /\ ev' = IF r = "click" THEN "refresh_click" ELSE "refresh_reload"
            ELSE pc' = "classify" /\ ev' = "iter" /\ UNCHANGED page
    /\ UNCHANGED <<cfg, ext, flags, context, session, cycle, url_idx, scan, unit>>

(***************************************************************************)
(* _process_month_page: 2. analyze state.  hist.scen follows the states    *)
(* classified so far: 1 after a first WRONG_CODE, 2 after a CAPTCHA next,  *)
(* 3 once that captcha was solved and submitted, 4 after a SLOTS_FOUND     *)
(* next, 0 otherwise.                                                      *)
(***************************************************************************)
\* the last link taken for the first
target_link_last(p) == p.days

\* day_links[0]
target_link(p) == 1

Scenario(sc, a, state) ==
    IF a = 0 THEN (IF state = "WRONG_CODE" THEN 1 ELSE 0)
    ELSE IF sc = 1 /\ state = "CAPTCHA" THEN 2
    ELSE IF sc = 3 /\ state = "SLOTS_FOUND" THEN 4
    ELSE 0
ScenAfterReload(sc) == IF sc = 1 THEN 1 ELSE 0
ScenAfterSubmit(sc) == IF sc = 2 THEN 3 ELSE IF sc = 1 THEN 1 ELSE 0

SlotsFound(p) ==
    IF p.days > 0
    THEN pc' = "day_nav" /\ day_link' = target_link(p)
    ELSE pc' = "month_ret" /\ UNCHANGED day_link

Classify ==
    /\ pc = "classify"
    /\ ev' = "classify"
    /\ \E p \in Shown(page), exc \in BOOLEAN :
         LET state == _analyze_page_state(p, exc)
         IN  /\ page' = p
             /\ hist' = [hist EXCEPT !.scen = Scenario(@, attempt, state)]
             /\ IF state = "SLOTS_FOUND" THEN SlotsFound(p)
                ELSE IF state = "EMPTY_CALENDAR"
                     THEN pc' = "month_ret" /\ UNCHANGED day_link
                     ELSE pc' = "solve" /\ UNCHANGED day_link
    /\ UNCHANGED <<cfg, ext, flags, context, session, cycle, url_idx, attempt, form, unit>>

(***************************************************************************)
(* _process_month_page: 3. solve and submit, 4. wait for the response.     *)
(***************************************************************************)
Noted(h, o) ==
    [h EXCEPT !.black = @ \/ o.black,
              !.after_black = @ \/ o.late \/ (h.black /\ o.solves + o.relays > 0)]

SolveSubmit ==
    /\ pc = "solve"
    /\ \E o \in solve_from_page(solver, page),
          d \in Durations :
         /\ (d > 0 => o.relays > 0)
         /\ session' = Elapse(session, d)
         /\ IF o.status = "BLACK_IMAGE"
            THEN /\ pc' = "month_ret"
                 /\ ev' = "sleep"
                 /\ hist' = Noted(hist, o)
                 /\ UNCHANGED <<page, attempt>>
            ELSE IF ~o.success \/ o.code = <<>>
                 THEN \E ok \in BOOLEAN :
                        IF ok
                        THEN /\ page' = Unread
                             /\ hist' = [Noted(hist, o) EXCEPT !.scen = ScenAfterReload(@)]
                             /\ attempt' = attempt + 1
                             /\ pc' = "loop_top"
                             /\ ev' = "reload"
                        ELSE /\ pc' = "month_ret"
                             /\ ev' = "error"
                             /\ hist' = Noted(hist, o)
                             /\ UNCHANGED <<page, attempt>>
                 ELSE /\ ev' = "submit"
                      /\ attempt' = attempt + 1
                      /\ pc' = "loop_top"
                      /\ hist' = [Noted(hist, o) EXCEPT !.scen = ScenAfterSubmit(@),
                                                       !.after_black = @ \/ o.black \/ hist.black]
                      /\ \E answered \in BOOLEAN : page' = IF answered THEN Unread ELSE page
    /\ UNCHANGED <<cfg, ext, flags, context, cycle, url_idx, day_link, form, unit>>

(***************************************************************************)
(* _run_single_session: the month scan returned False.                     *)
(***************************************************************************)
\* the breaker stuck open, and stuck closed
breaker_open_always(s) == TRUE
breaker_open_never(s) == FALSE

breaker_open(s) == s.cnf >= BREAKER

MonthRet ==
    /\ pc = "month_ret"
    /\ ev' = "month_ret"
    /\ IF breaker_open(session)
       THEN pc' = "cycle_sleep" /\ UNCHANGED url_idx
       ELSE pc' = "url_top" /\ url_idx' = url_idx + 1
    /\ attempt' = 0
    /\ day_link' = 0
    /\ form' = NoForm
    /\ hist' = NoHist
    /\ UNCHANGED <<cfg, ext, flags, context, session, page, cycle, unit>>

\* a day page handler that goes on to the form whatever the day page shows
DayNav_unconditional ==
    /\ pc = "day_nav"
    /\ ev' = "nav_day"
    /\ \E ok \in BOOLEAN :
         IF ok
         THEN /\ page' \in DayPages
              /\ pc' = "form_nav"
         ELSE pc' = "month_ret" /\ UNCHANGED page
    /\ UNCHANGED <<cfg, ext, flags, context, session, cycle, url_idx, scan, unit>>

(***************************************************************************)
(* _process_day_page.                                                      *)
(***************************************************************************)
DayNav ==
    /\ pc = "day_nav"
    /\ ev' = "nav_day"
    /\ \E ok \in BOOLEAN :
         IF ok
         THEN /\ page' \in DayPages
              /\ pc' = IF page'.slots = 0 THEN "month_ret" ELSE "form_nav"
         ELSE pc' = "month_ret" /\ UNCHANGED page
    /\ UNCHANGED <<cfg, ext, flags, context, session, cycle, url_idx, scan, unit>>

(***************************************************************************)
(* _process_booking_form: navigation, _fill_booking_form and the captcha   *)
(* check.                                                                  *)
(***************************************************************************)
FormNav ==
    /\ pc = "form_nav"
    /\ ev' = "nav_form"
    /\ \E ok \in BOOLEAN, filled \in BOOLEAN :
         IF ~ok
         THEN pc' = "month_ret" /\ UNCHANGED <<page, form>>
         ELSE /\ page' \in FormPages
              /\ IF ~filled
                 THEN pc' = "month_ret" /\ UNCHANGED form
                 ELSE IF page'.captcha
                      THEN pc' = "fc_top" /\ form' = [attempt |-> 0, age |-> session.age]
                      ELSE pc' = "form_submit" /\ UNCHANGED form
    /\ UNCHANGED <<cfg, ext, flags, context, session, cycle, url_idx, attempt, day_link, hist,
                   unit>>

(***************************************************************************)
(* EnhancedCaptchaSolver.solve_form_captcha_with_retry: one pass of its    *)
(* loop.                                                                   *)
(***************************************************************************)
form_max_attempts(s) == IF s.manual_only THEN MaxManualTries ELSE FORM_MAX_ATTEMPTS

FcAttempt ==
    /\ pc = "fc_top"
    /\ IF form.attempt = form_max_attempts(solver)
       THEN pc' = "month_ret" /\ ev' = "form_failed" /\ UNCHANGED <<page, form, session>>
       ELSE \E o \in solve_from_page(solver, page), d \in Durations :
              /\ (d > 0 => o.relays > 0)
              /\ session' = Elapse(session, d)
              /\ IF o.success /\ o.code # <<>>
                 THEN pc' = "form_submit" /\ ev' = "form_solved" /\ UNCHANGED <<page, form>>
                 ELSE IF form.attempt < form_max_attempts(solver) - 1
                      THEN IF form.age > FORM_MAX_AGE
                           THEN /\ pc' = "month_ret"
                                /\ ev' = "form_failed"
                                /\ UNCHANGED <<page, form>>
                           ELSE \E clicked \in BOOLEAN :
                                  IF clicked
                                  THEN /\ page' \in FormPages
                                       /\ form' = [form EXCEPT !.attempt = @ + 1]
                                       /\ pc' = "fc_top"
                                       /\ ev' = "form_reload"
                                  ELSE /\ pc' = "month_ret"
                                       /\ ev' = "form_failed"
                                       /\ UNCHANGED <<page, form>>
                      ELSE /\ form' = [form EXCEPT !.attempt = @ + 1]
                           /\ pc' = "fc_top"
                           /\ ev' = "form_last"
                           /\ UNCHANGED page
    /\ UNCHANGED <<cfg, ext, flags, context, cycle, url_idx, attempt, day_link, hist, unit>>

(***************************************************************************)
(* _process_booking_form: 3. dry run check, 4. _submit_form, whose True    *)
(* comes from _check_success, which records the success and sets the stop  *)
(* flag.                                                                   *)
(***************************************************************************)
\* the stop flag left as it is
_check_success_no_stop(found) == [success |-> found, stop |-> FALSE]

\* _check_success: found tells whether the page carries a success term
_check_success(found) == [success |-> found, stop |-> found]

FormSubmit ==
    /\ pc = "form_submit"
    /\ IF dry_run
       THEN pc' = "final" /\ ev' = "dry_run" /\ UNCHANGED flags
       ELSE \E found \in BOOLEAN :
              LET r == _check_success(found)
              IN  /\ ev' = "submit_form"
                  /\ success' = (success \/ r.success)
                  /\ stop_event' = (stop_event \/ r.stop)
                  /\ pc' = IF r.success THEN "final" ELSE "month_ret"
                  /\ UNCHANGED paused
    /\ UNCHANGED <<cfg, ext, context, session, page, cycle, url_idx, scan, unit>>

(***************************************************************************)
(* _run_single_session: the sleep that ends a cycle and the session        *)
(* maintenance after it.                                                   *)
(***************************************************************************)
needs_reset(s) == s.age > SESSION_MAX_AGE \/ breaker_open(s)

CycleSleep ==
    /\ pc = "cycle_sleep"
    /\ ev' = "sleep"
    /\ \E d \in Durations : session' = Elapse(session, d)
    /\ pc' = "maintain"
    /\ UNCHANGED <<cfg, ext, flags, context, page, cycle, url_idx, scan, unit>>

Maintain ==
    /\ pc = "maintain"
    /\ IF needs_reset(session)
       THEN \E ok \in BOOLEAN :
              IF ok
              THEN /\ create_context
                   /\ cycle' = cycle + 1
                   /\ pc' = "cycle_top"
                   /\ ev' = "create"
              ELSE /\ close_context
                   /\ pc' = "cycle_error"
                   /\ ev' = "create_failed"
                   /\ UNCHANGED <<session, page, cycle>>
       ELSE /\ cycle' = cycle + 1
            /\ pc' = "cycle_top"
            /\ ev' = "keep"
            /\ UNCHANGED <<context, session, page>>
    /\ UNCHANGED <<cfg, ext, flags, url_idx, scan, unit>>

\* except Exception as cycle_error
CycleError ==
    /\ pc = "cycle_error"
    /\ \E ok \in BOOLEAN :
         IF ok
         THEN /\ create_context
              /\ cycle' = cycle + 1
              /\ pc' = "cycle_top"
              /\ ev' = "create"
         ELSE /\ pc' = "final"
              /\ ev' = "create_failed"
              /\ UNCHANGED <<context, session, page, cycle>>
    /\ UNCHANGED <<cfg, ext, flags, url_idx, scan, unit>>

\* finally: page.close(), context.close()
Final ==
    /\ pc = "final"
    /\ close_context
    /\ pc' = "done"
    /\ ev' = "close"
    /\ UNCHANGED <<cfg, ext, flags, session, page, cycle, url_idx, scan, unit>>

(***************************************************************************)
(* The operator's commands: SniperManager.stop_session, pause_execution,   *)
(* resume_execution.                                                       *)
(***************************************************************************)
Running == pc \notin {"init", "multi", "done", "unit"}

stop_session ==
    /\ Running
    /\ ~stop_event
    /\ stop_event' = TRUE
    /\ UNCHANGED <<cfg, ext, paused, success, context, session, page, pc, ev, cycle, url_idx,
                   scan, unit>>

pause_execution ==
    /\ Running
    /\ ~paused
    /\ paused' = TRUE
    /\ UNCHANGED <<cfg, ext, stop_event, success, context, session, page, pc, ev, cycle, url_idx,
                   scan, unit>>

resume_execution ==
    /\ Running
    /\ paused
    /\ paused' = FALSE
    /\ UNCHANGED <<cfg, ext, stop_event, success, context, session, page, pc, ev, cycle, url_idx,
                   scan, unit>>

Next ==
    \/ run
    \/ Start
    \/ CycleTop
    \/ PauseWait
    \/ UrlTop
    \/ Nav
    \/ LoopTop
    \/ Classify
    \/ SolveSubmit
    \/ MonthRet
    \/ DayNav
    \/ FormNav
    \/ FcAttempt
    \/ FormSubmit
    \/ CycleSleep
    \/ Maintain
    \/ CycleError
    \/ Final
    \/ stop_session
    \/ pause_execution
    \/ resume_execution

Spec == Init /\ [][Next]_vars

(***************************************************************************)
(* solve() called on its own, on arguments drawn from bounded sets.        *)
(***************************************************************************)
SolveSizes == {0, 1, 1999, 2000, 5000}

SolveInit ==
    /\ solver \in Solvers
    /\ ExtInit
    /\ arg \in [image_len : SolveSizes, cap : CapAnswers, raw : OcrTexts \cup {<<>>},
                exc : BOOLEAN]
    /\ out = NoOut
    /\ pc = "unit"
    /\ ev = "init"
    /\ dry_run = FALSE
    /\ sniper_id \in SniperIds
    /\ stop_event = FALSE
    /\ paused = FALSE
    /\ success = FALSE
    /\ context = [id |-> 0, open |-> FALSE]
    /\ session = NoSession
    /\ page = NoPage
    /\ cycle = 0
    /\ url_idx = 0
    /\ attempt = 0
    /\ day_link = 0
    /\ form = NoForm
    /\ hist = NoHist

SolveCall ==
    /\ pc = "unit"
    /\ out' = solve(solver, arg.image_len, arg.cap, arg.raw, arg.exc)
    /\ pc' = "unit_done"
    /\ ev' = "solve"
    /\ UNCHANGED <<cfg, ext, flags, context, session, page, cycle, url_idx, scan, arg>>

SolveNext == SolveCall

SpecSolve == SolveInit /\ [][SolveNext]_vars

(***************************************************************************)
(* The variables of the single-session flow while it is not running.       *)
(***************************************************************************)
Idle(p) ==
    /\ sniper_id \in SniperIds
    /\ stop_event = FALSE
    /\ paused = FALSE
    /\ success = FALSE
    /\ context = [id |-> 0, open |-> FALSE]
    /\ session = NoSession
    /\ page = NoPage
    /\ pc = p
    /\ ev = "init"
    /\ cycle = 0
    /\ url_idx = 0
    /\ attempt = 0
    /\ day_link = 0
    /\ form = NoForm
    /\ hist = NoHist

FlowIdle(p) ==
    /\ Idle(p)
    /\ arg = NoArg
    /\ out = NoOut

\* the single-session flow stands still
FlowFrame == UNCHANGED <<cfg, paused, context, session, page, pc, ev, cycle, url_idx, scan, unit>>

\* a function called on its own: everything but its argument and its result
\* stays as constructed
UnitFrame == UNCHANGED <<cfg, ext, flags, context, session, page, cycle, url_idx, scan>>

(***************************************************************************)
(* EliteSniperV2._analyze_page_state called on its own, on a page with any *)
(* combination of the indicators it looks for.                             *)
(***************************************************************************)
AllPages ==
    { Pg(d, sl, na, w, c) : d \in 0..MaxLinks, sl \in 0..1,
                            na \in BOOLEAN, w \in BOOLEAN, c \in BOOLEAN }

ClassifyInit ==
    /\ \E c \in RunConfigs : solver = c[1] /\ dry_run = c[2]
    /\ Idle("classify")
    /\ ExtInit
    /\ arg \in [p : AllPages, exc : BOOLEAN]
    /\ out = ""

ClassifyCall ==
    /\ pc = "classify"
    /\ out' = _analyze_page_state(arg.p, arg.exc)
    /\ pc' = "classified"
    /\ ev' = "analyze"
    /\ UNCHANGED arg
    /\ UnitFrame

ClassifyNext == ClassifyCall

SpecClassify == ClassifyInit /\ [][ClassifyNext]_vars

(***************************************************************************)
(* EnhancedCaptchaSolver.validate_captcha_result and _clean_ocr_result     *)
(* called on their own.  The texts are every string of up to MaxShort      *)
(* characters over letters, digits, blank, tab and a punctuation mark, and *)
(* every string of up to MaxText characters over a letter, a digit and the *)
(* blank.                                                                  *)
(***************************************************************************)
SeqsUpTo(S, n) == UNION { [1..k -> S] : k \in 0..n }

ShortChars == {"a", "3", "4", " ", "\t", "-"}
LongChars == {"a", "4", " "}
Texts == SeqsUpTo(ShortChars, MaxShort) \cup SeqsUpTo(LongChars, MaxText)

TextInit ==
    /\ solver = NewSolver("AUTO", TRUE, TRUE, TRUE)
    /\ dry_run = FALSE
    /\ Idle("text")
    /\ ExtInit
    /\ arg \in Texts
    /\ out = <<>>

\* is_valid, status = self.validate_captcha_result(code)
ValidateCall ==
    /\ pc = "text"
    /\ out' = validate_captcha_result(arg)
    /\ pc' = "validated"
    /\ ev' = "validate"
    /\ UNCHANGED arg
    /\ UnitFrame

\* result = self._clean_ocr_result(text), on a text and then on its own result
CleanCall ==
    /\ pc \in {"text", "cleaned"}
    /\ out' = _clean_ocr_result(IF pc = "text" THEN arg ELSE out)
    /\ pc' = IF pc = "text" THEN "cleaned" ELSE "cleaned_twice"
    /\ ev' = "clean"
    /\ UNCHANGED arg
    /\ UnitFrame

TextNext == ValidateCall \/ CleanCall

SpecText == TextInit /\ [][TextNext]_vars

(***************************************************************************)
(* run_elite_sniper_v2 (main.py): the loop that builds and runs the sniper *)
(* until a booking is made, the user interrupts it or the retries run out. *)
(***************************************************************************)
SupervisorInit ==
    /\ solver = NewSolver("AUTO", TRUE, TRUE, TRUE)
    /\ dry_run = FALSE
    /\ FlowIdle("supervisor")
    /\ PoolIdle
    /\ sub = NoSub
    /\ presolved = NoCap
    /\ relay = NoRelay
    /\ missing \in BOOLEAN
    /\ supervisor = [NoSupervisor EXCEPT !.pc = "top"]
    /\ manager = NoManager

SupervisorFrame ==
    /\ UNCHANGED <<poolv, sub, presolved, relay, missing, manager>>
    /\ UNCHANGED flags
    /\ FlowFrame

\* sniper = EliteSniperV2(run_mode="AUTO"): __init__ calls _validate_config
\* first, which raises ValueError when a required field is missing; the
\* constructor may fail later for other reasons
Construct ==
    /\ supervisor.pc = "top"
    /\ supervisor.retry_count < max_retries
    /\ supervisor.built < MaxStarts
    /\ \E raises \in (IF missing THEN {TRUE} ELSE BOOLEAN) :
         supervisor' = [supervisor EXCEPT !.built = @ + 1,
                                          !.pc = IF raises THEN "crashed" ELSE "built"]
    /\ SupervisorFrame

\* success = sniper.run(), and what the loop does with it: True ends the
\* loop, False after less than min_runtime seconds counts as a failed start,
\* False after more resets the count; an exception goes to the handler, an
\* interrupt ends the loop
Run ==
    /\ supervisor.pc = "built"
    /\ \E res \in {"true", "false", "raise", "interrupt"}, runtime \in {0, min_runtime} :
         supervisor' =
           [supervisor EXCEPT
              !.runs = @ + 1,
              !.pc = CASE res = "true" -> "done"
                       [] res = "interrupt" -> "done"
                       [] res = "raise" -> "crashed"
                       [] OTHER -> "top",
              !.ret = CASE res = "true" -> "true"
                        [] res = "interrupt" -> "false"
                        [] OTHER -> @,
              !.retry_count = IF res = "false"
                              THEN IF runtime < min_runtime THEN @ + 1 ELSE 0
                              ELSE @]
    /\ SupervisorFrame

\* except Exception: retry_count += 1, then sleep and loop again while
\* retry_count < max_retries, else return False
Crash ==
    /\ supervisor.pc = "crashed"
    /\ LET n == supervisor.retry_count + 1
       IN  supervisor' = [supervisor EXCEPT !.retry_count = n,
                                            !.pc = IF n < max_retries THEN "top" ELSE "fatal",
                                            !.ret = IF n < max_retries THEN @ ELSE "false"]
    /\ SupervisorFrame

\* the while condition fails: return False
Exhausted ==
    /\ supervisor.pc = "top"
    /\ supervisor.retry_count >= max_retries
    /\ supervisor' = [supervisor EXCEPT !.pc = "exhausted", !.ret = "false"]
    /\ SupervisorFrame

SupervisorNext == Construct \/ Run \/ Crash \/ Exhausted

SpecSupervisor == SupervisorInit /\ [][SupervisorNext]_vars

(***************************************************************************)
(* SniperManager (sniper_manager.py): start_session and stop_session, each *)
(* one step under the class lock, and the run thread of _run_wrapper,      *)
(* whose finally block takes the same lock.                                *)
(***************************************************************************)
ManagerInit ==
    /\ solver = NewSolver("AUTO", TRUE, TRUE, TRUE)
    /\ dry_run = FALSE
    /\ FlowIdle("manager")
    /\ PoolIdle
    /\ sub = NoSub
    /\ presolved = NoCap
    /\ relay = NoRelay
    /\ missing \in BOOLEAN
    /\ supervisor = NoSupervisor
    /\ manager = NoManager

ManagerFrame ==
    /\ UNCHANGED <<poolv, sub, presolved, relay, missing, supervisor>>
    /\ UNCHANGED flags
    /\ FlowFrame

\* start_session with no test of is_running
start_session_unchecked ==
    /\ manager.calls < MaxCalls
    /\ \E raises \in (IF missing THEN {TRUE} ELSE BOOLEAN), started \in BOOLEAN :
         LET id == manager.built + 1
         IN  manager' =
               IF raises
               THEN [manager EXCEPT !.calls = @ + 1, !.built = id, !.is_running = FALSE,
                                    !.ret = "start_false"]
               ELSE IF ~started
               THEN [manager EXCEPT !.calls = @ + 1, !.built = id, !.current_sniper = id,
                                    !.is_running = FALSE, !.ret = "start_false"]
               ELSE [manager EXCEPT !.calls = @ + 1, !.built = id, !.current_sniper = id,
                                    !.threads = @ \cup {id}, !.is_running = TRUE,
                                    !.ret = "start_true"]
    /\ ManagerFrame

\* start_session: refused while is_running; else the sniper is built (raises:
\* the constructor raises, as it does when a required field is missing), the
\* thread is started (started: Thread.start did not raise) and is_running set
start_session ==
    /\ manager.calls < MaxCalls
    /\ \E raises \in (IF missing THEN {TRUE} ELSE BOOLEAN), started \in BOOLEAN :
         LET id == manager.built + 1
         IN  manager' =
               IF manager.is_running
               THEN [manager EXCEPT !.calls = @ + 1, !.ret = "start_false"]
               ELSE IF raises
               THEN [manager EXCEPT !.calls = @ + 1, !.built = id, !.is_running = FALSE,
                                    !.ret = "start_false"]
               ELSE IF ~started
               THEN [manager EXCEPT !.calls = @ + 1, !.built = id, !.current_sniper = id,
                                    !.is_running = FALSE, !.ret = "start_false"]
               ELSE [manager EXCEPT !.calls = @ + 1, !.built = id, !.current_sniper = id,
                                    !.threads = @ \cup {id}, !.is_running = TRUE,
                                    !.ret = "start_true"]
    /\ ManagerFrame

\* SniperManager.stop_session with its return value: the stop_event of the
\* current sniper is set, the thread is not joined
ManagerStop ==
    /\ manager.calls < MaxCalls
    /\ manager' =
         IF ~manager.is_running \/ manager.current_sniper = 0
         THEN [manager EXCEPT !.calls = @ + 1, !.ret = "stop_false"]
         ELSE [manager EXCEPT !.calls = @ + 1, !.ret = "stop_true",
                              !.stopped = @ \cup {manager.current_sniper}]
    /\ ManagerFrame

\* _run_wrapper: self.current_sniper.run() returns or raises, on its own or
\* because its stop_event was set
RunEnds(t) ==
    /\ t \in manager.threads \ manager.ended
    /\ manager' = [manager EXCEPT !.ended = @ \cup {t}]
    /\ ManagerFrame

\* _run_wrapper: the finally block, under the lock
_run_wrapper_finally(t) ==
    /\ t \in manager.threads \cap manager.ended
    /\ manager' = [manager EXCEPT !.is_running = FALSE, !.current_sniper = 0,
                                  !.threads = @ \ {t}]
    /\ ManagerFrame

\* get_status, first line: is_running is read, with no lock held
get_status_test ==
    /\ ~manager.reading
    /\ manager' = IF ~manager.is_running
                  THEN [manager EXCEPT !.ret = "IDLE"]
                  ELSE [manager EXCEPT !.reading = TRUE]
    /\ ManagerFrame

\* get_status, second line: self.current_sniper.run_mode is read; on None the
\* attribute access raises AttributeError
get_status_format ==
    /\ manager.reading
    /\ manager' = [manager EXCEPT !.reading = FALSE,
                                  !.ret = IF manager.current_sniper = 0
                                          THEN "AttributeError" ELSE "RUNNING"]
    /\ ManagerFrame

ManagerNext ==
    \/ start_session
    \/ ManagerStop
    \/ get_status_test
    \/ get_status_format
    \/ \E t \in 1..MaxCalls : RunEnds(t) \/ _run_wrapper_finally(t)

SpecManager == ManagerInit /\ [][ManagerNext]_vars

(***************************************************************************)
(* EnhancedCaptchaSolver.solve_from_page followed pass by pass through its *)
(* internal retry loop, from the point where no pre-solved code was found. *)
(* out holds the locals of the call and what it did so far: internal       *)
(* attempt i, code and status, the solve calls, captcha reloads and relay   *)
(* requests made, the OCR readings validated as too short, whether a human *)
(* reply was received, and the value returned.                             *)
(***************************************************************************)
SfpLocals ==
    [i |-> 0, code |-> <<>>, status |-> "", solves |-> 0, reloads |-> 0, relays |-> 0,
     short |-> 0, replied |-> FALSE, filled |-> <<>>, ret |-> "none"]

SfpInit ==
    /\ \E c \in RunConfigs : solver = c[1] /\ dry_run = c[2]
    /\ Idle("sfp_loop")
    /\ ExtInit
    /\ arg = NoArg
    /\ out = SfpLocals

\* the local OCR engine was asked and validate_captcha_result found its
\* reading too short
reading_too_short(s, image_len, cap, raw, exc) ==
    /\ solve(s, image_len, cap, raw, exc).ocr_calls = 1
    /\ ~exc
    /\ validate_captcha_result(_clean_ocr_result(lower(strip(replace_spaces(raw)))))[2]
          = "TOO_SHORT"

\* one pass of the for loop: image, solve, then the mode's logic
SfpPass ==
    /\ pc = "sfp_loop"
    /\ out.i < internal_max_retries
    /\ \E a \in [image_len : ImageSizes, cap : CapAnswers, raw : OcrTexts, exc : BOOLEAN],
          reply \in request_manual_solution(solver) :
         LET r == solve(solver, a.image_len, a.cap, a.raw, a.exc)
             l1 == [out EXCEPT !.code = r.code, !.status = r.status, !.solves = @ + 1,
                               !.short = IF reading_too_short(solver, a.image_len, a.cap,
                                                              a.raw, a.exc)
                                         THEN @ + 1 ELSE @]
             asked == [l1 EXCEPT !.relays = IF solver.manual THEN @ + 1 ELSE @]
         IN  /\ arg' = a
             /\ IF a.image_len = 0
                THEN /\ out' = [out EXCEPT !.ret = "NO_IMAGE"]
                     /\ pc' = "sfp_done"
                ELSE IF solver.auto_only
                THEN IF r.status = "TOO_SHORT" /\ out.i < internal_max_retries - 1
                     THEN /\ out' = [l1 EXCEPT !.reloads = @ + 1, !.i = @ + 1]
                          /\ pc' = "sfp_loop"
                     ELSE IF r.code = <<>> \/ r.status \in AutoSkip
                          THEN /\ out' = [l1 EXCEPT !.ret = "AUTO_SKIP_" \o r.status]
                               /\ pc' = "sfp_done"
                          ELSE /\ out' = l1
                               /\ pc' = "sfp_fill"
                ELSE IF reply # <<>>
                     THEN /\ out' = [asked EXCEPT !.code = reply, !.status = "MANUAL",
                                                  !.replied = TRUE, !.i = @ + 1]
                          /\ pc' = "sfp_loop"
                     ELSE /\ out' = [asked EXCEPT !.ret = "MANUAL_TIMEOUT"]
                          /\ pc' = "sfp_done"
    /\ ev' = "sfp_pass"
    /\ UnitFrame

\* page.fill(input_selector, code), after a break or after the last pass
SfpFill ==
    /\ \/ pc = "sfp_fill"
       \/ pc = "sfp_loop" /\ out.i = internal_max_retries
    /\ \E ok \in BOOLEAN :
         out' = IF ok THEN [out EXCEPT !.filled = out.code, !.ret = out.status]
                ELSE [out EXCEPT !.ret = "FILL_ERROR"]
    /\ pc' = "sfp_done"
    /\ ev' = "sfp_fill"
    /\ UNCHANGED arg
    /\ UnitFrame

SfpNext == SfpPass \/ SfpFill

SpecSfp == SfpInit /\ [][SfpNext]_vars

(***************************************************************************)
(* EnhancedCaptchaSolver.solve_form_captcha_with_retry called on its own.  *)
(* arg holds the session_age argument; out the loop counter, the calls of  *)
(* solve_from_page and the reloads made so far, and the value returned.    *)
(***************************************************************************)
FormLocals ==
    [attempt |-> 0, solves |-> 0, reloads |-> 0, success |-> FALSE, code |-> <<>>,
     status |-> "", ret |-> "none"]

FormInit ==
    /\ \E c \in RunConfigs : solver = c[1] /\ dry_run = c[2]
    /\ Idle("form_loop")
    /\ ExtInit
    /\ arg \in [session_age : {0, FORM_MAX_AGE + 1}]
    /\ out = FormLocals

\* a reload after every failed attempt, the last one too
reload_due_always(attempt0, max) == TRUE

\* if attempt < max_attempts - 1: the captcha is reloaded after a failed
\* attempt unless it was the last
reload_due(attempt0, max) == attempt0 < max - 1

\* one pass of the for loop: solve_from_page, then the age test and
\* reload_captcha (clicked: the reload control was found and clicked)
FormPass ==
    /\ pc = "form_loop"
    /\ out.attempt < form_max_attempts(solver)
    /\ \E has_captcha \in BOOLEAN, clicked \in BOOLEAN :
       \E o \in sfp_results[solver][has_captcha] :
         LET l1 == [out EXCEPT !.solves = @ + 1, !.status = o.status]
         IN  IF o.success /\ o.code # <<>>
             THEN /\ out' = [l1 EXCEPT !.success = TRUE, !.code = o.code, !.ret = o.status]
                  /\ pc' = "form_done"
             ELSE IF reload_due(out.attempt, form_max_attempts(solver))
             THEN IF arg.session_age > FORM_MAX_AGE
                  THEN /\ out' = [l1 EXCEPT !.ret = "SESSION_TOO_OLD"]
                       /\ pc' = "form_done"
                  ELSE IF ~clicked
                  THEN /\ out' = [l1 EXCEPT !.ret = "RELOAD_FAILED"]
                       /\ pc' = "form_done"
                  ELSE /\ out' = [l1 EXCEPT !.reloads = @ + 1, !.attempt = @ + 1]
                       /\ pc' = "form_loop"
             ELSE /\ out' = [l1 EXCEPT !.attempt = @ + 1]
                  /\ pc' = "form_loop"
    /\ ev' = "form_pass"
    /\ UNCHANGED arg
    /\ UnitFrame

\* the loop is over: return False, None, "MAX_ATTEMPTS_REACHED"
FormGiveUp ==
    /\ pc = "form_loop"
    /\ out.attempt = form_max_attempts(solver)
    /\ out' = [out EXCEPT !.ret = "MAX_ATTEMPTS_REACHED"]
    /\ pc' = "form_done"
    /\ ev' = "form_give_up"
    /\ UNCHANGED arg
    /\ UnitFrame

FormNext == FormPass \/ FormGiveUp

SpecForm == FormInit /\ [][FormNext]_vars

(***************************************************************************)
(* The multi-session mode (editbot.py): session_worker, _scout_behavior    *)
(* and _attacker_behavior, one thread per worker, interleaved.             *)
(***************************************************************************)
PoolConfigs == { c \in RunConfigs : c[1].mode \in {"AUTO", "HYBRID"} }

PoolInit ==
    /\ \E c \in PoolConfigs : solver = c[1] /\ dry_run = c[2]
    /\ FlowIdle("pool")
    /\ sub = NoSub
    /\ presolved = NoCap
    /\ relay = NoRelay
    /\ BootIdle
    /\ wpc = [w \in Workers |-> "start"]
    /\ wsess = [w \in Workers |-> NoWorkerSession]
    /\ wloc = [w \in Workers |-> NoLocals]
    /\ shared = NoShared

PoolFrame == FlowFrame /\ UNCHANGED <<sub, presolved, relay, boot>>

\* solve_from_page gave a code: success and code
Solved(o) == o.success /\ o.code # <<>>

\* what a month page and its solve_from_page call can give a worker, as
\* triples <<solver, a code was submitted, day links on the page as loaded>>
month_outcomes ==
    UNION { { <<c[1], Solved(o), q.days > 0>> : o \in solve_from_page(c[1], q) } :
            c \in PoolConfigs, q \in MonthPages }

\* workers between the load and the store of a counter increment
Incrementing == { w \in Workers : wpc[w] \in {"inc_load", "inc_store"} }

MayIncrement == shared.increments + Cardinality(Incrementing) < MaxSolved

\* create_context in a worker: SessionState of a new context (the rebirths
\* statistic, incremented under the lock, is not kept)
WorkerCreate(w) == wsess' = [wsess EXCEPT ![w] = [open |-> TRUE, pages_loaded |-> 0]]

\* session_worker: the initial create_context; a raise ends the worker
W_Start(w) ==
    /\ wpc[w] = "start"
    /\ \E ok \in BOOLEAN :
         IF ok
         THEN WorkerCreate(w) /\ wpc' = [wpc EXCEPT ![w] = "top"]
         ELSE wpc' = [wpc EXCEPT ![w] = "end"] /\ UNCHANGED wsess
    /\ UNCHANGED <<wloc, shared, flags>>
    /\ PoolFrame

\* except Exception in the worker loop: break on success, else close the
\* context and go on with the loop
Crashed(w) ==
    /\ wsess' = [wsess EXCEPT ![w] = NoWorkerSession]
    /\ wpc' = [wpc EXCEPT ![w] = IF success THEN "end" ELSE "top"]

\* session_worker: head of the loop; the pre-attack reset and the health check
\* both close the context and create a new one; then the role's behavior
W_Top(w) ==
    /\ wpc[w] = "top"
    /\ IF stop_event
       THEN /\ wpc' = [wpc EXCEPT ![w] = "end"]
            /\ wsess' = [wsess EXCEPT ![w] = NoWorkerSession]
       ELSE \E rebirth \in BOOLEAN, ok \in BOOLEAN :
              IF ~rebirth
              THEN /\ ok
                   /\ wpc' = [wpc EXCEPT ![w] = IF w = Scout THEN "s_month" ELSE "a_behave"]
                   /\ UNCHANGED wsess
              ELSE IF ok
                   THEN WorkerCreate(w) /\ UNCHANGED wpc
                   ELSE Crashed(w)
    /\ UNCHANGED <<wloc, shared, flags>>
    /\ PoolFrame

\* _scout_behavior, days on the page of month m: with self.lock:
\* self.target_url = url; then slot_event.set().  The results of the attackers
\* are kept per published target.
Signal(w, m, days) ==
    /\ shared' = IF days THEN [shared EXCEPT !.target_url = m + 1, !.slot_event = TRUE]
                         ELSE shared
    /\ wloc' = [v \in Workers |->
                  IF v = w THEN [wloc[v] EXCEPT !.month = m + 1, !.days = FALSE]
                  ELSE IF days THEN [wloc[v] EXCEPT !.result = "none"]
                  ELSE wloc[v]]

\* _scout_behavior: one month URL: goto, solve_from_page, the days on the page
S_Month(w) ==
    /\ wpc[w] = "s_month"
    /\ IF wloc[w].month = NUM_MONTHS \/ stop_event
       THEN /\ wpc' = [wpc EXCEPT ![w] = "after"]
            /\ wloc' = [wloc EXCEPT ![w].month = 0]
            /\ UNCHANGED shared
       ELSE \E ok \in BOOLEAN :
              IF ~ok
              THEN /\ wloc' = [wloc EXCEPT ![w].month = @ + 1]
                   /\ UNCHANGED <<wpc, shared>>
              ELSE /\ wsess[w].open
                   /\ \E m \in month_outcomes, d \in BOOLEAN :
                        /\ m[1] = solver
                        /\ IF m[2]
                           THEN /\ MayIncrement
                                /\ wloc' = [wloc EXCEPT ![w].days = d]
                                /\ wpc' = [wpc EXCEPT ![w] = "inc_load"]
                                /\ UNCHANGED shared
                           ELSE /\ d
                                /\ Signal(w, wloc[w].month, m[3])
                                /\ UNCHANGED wpc
    /\ UNCHANGED <<wsess, flags>>
    /\ PoolFrame

\* global_stats.captchas_solved += 1, not under the lock: the read
IncLoad(w) ==
    /\ wpc[w] = "inc_load"
    /\ wloc' = [wloc EXCEPT ![w].tmp = shared.captchas_solved]
    /\ wpc' = [wpc EXCEPT ![w] = "inc_store"]
    /\ UNCHANGED <<wsess, shared, flags>>
    /\ PoolFrame

\* global_stats.captchas_solved += 1: the write; an attacker then waits on
\* slot_event (5 s at most) and returns
IncStore(w) ==
    /\ wpc[w] = "inc_store"
    /\ shared' = [shared EXCEPT !.captchas_solved = wloc[w].tmp + 1, !.increments = @ + 1]
    /\ wloc' = [wloc EXCEPT ![w].tmp = 0]
    /\ wpc' = [wpc EXCEPT ![w] = IF w = Scout THEN "s_days" ELSE "after"]
    /\ UNCHANGED <<wsess, flags>>
    /\ PoolFrame

\* _scout_behavior: the days on the page after the captcha was submitted
S_Days(w) ==
    /\ wpc[w] = "s_days"
    /\ Signal(w, wloc[w].month, wloc[w].days)
    /\ wpc' = [wpc EXCEPT ![w] = "s_month"]
    /\ UNCHANGED <<wsess, flags>>
    /\ PoolFrame

\* a call returning n_returned values unpacked into n_targets names
unpack_ok(n_returned, n_targets) == n_returned = n_targets

\* _attacker_behavior: standby (warm-up load, solve, wait on slot_event) or,
\* with slot_event set, the attack on target_url
A_Behave(w) ==
    /\ wpc[w] = "a_behave"
    /\ IF ~shared.slot_event
       THEN /\ IF wsess[w].pages_loaded = 0
               THEN \E ok \in BOOLEAN :
                      IF ~ok
                      THEN wpc' = [wpc EXCEPT ![w] = "after"] /\ UNCHANGED wsess
                      ELSE /\ wsess[w].open
                           /\ wsess' = [wsess EXCEPT ![w].pages_loaded = 1]
                           /\ \E m \in month_outcomes :
                                /\ m[1] = solver
                                /\ m[2] => MayIncrement
                                /\ wpc' = [wpc EXCEPT ![w] =
                                             IF m[2] THEN "inc_load" ELSE "after"]
               ELSE wpc' = [wpc EXCEPT ![w] = "after"] /\ UNCHANGED wsess
            /\ UNCHANGED <<wloc, shared, flags>>
       ELSE /\ wpc' = [wpc EXCEPT ![w] = "after"]
            /\ UNCHANGED wsess
            /\ IF shared.target_url = 0
               THEN UNCHANGED <<wloc, shared, flags>>
               ELSE \E ok \in BOOLEAN :
                      IF ~ok \/ ~wsess[w].open \/ ~unpack_ok(3, 2)
                      THEN /\ wloc' = [wloc EXCEPT ![w].result = "error"]
                           /\ UNCHANGED <<shared, flags>>
                      ELSE \E found \in BOOLEAN :
                             LET won == found /\ shared.server_free
                                 r == _check_success(won)
                             IN  /\ wloc' = [wloc EXCEPT ![w].result =
                                               IF won THEN "success" ELSE "failure"]
                                 /\ shared' = [shared EXCEPT !.server_free = @ /\ ~won]
                                 /\ success' = (success \/ r.success)
                                 /\ stop_event' = (stop_event \/ r.stop)
                                 /\ UNCHANGED paused
    /\ PoolFrame

\* session_worker: after the behavior an attacker clears a set slot_event
W_After(w) ==
    /\ wpc[w] = "after"
    /\ wpc' = [wpc EXCEPT ![w] = "top"]
    /\ shared' = [shared EXCEPT !.slot_event = @ /\ w = Scout]
    /\ UNCHANGED <<wsess, wloc, flags>>
    /\ PoolFrame

PoolNext ==
    \/ \E w \in Workers :
         \/ W_Start(w)
         \/ W_Top(w)
         \/ S_Month(w)
         \/ IncLoad(w)
         \/ IncStore(w)
         \/ S_Days(w)
         \/ A_Behave(w)
         \/ W_After(w)
    \/ stop_session

SpecPool == PoolInit /\ [][PoolNext]_vars

(***************************************************************************)
(* _attacker_behavior (editbot.py) entered with slot_event set, on its     *)
(* own.  arg holds what the server shows (day links on the target page,    *)
(* time links on the day page, the booking form); out how far the attack   *)
(* has got.                                                                *)
(***************************************************************************)
AttackLocals == [stage |-> "none", slots_found |-> 0, failures |-> 0, ret |-> "none"]

AttackInit ==
    /\ \E c \in RunConfigs : solver = c[1] /\ dry_run = c[2]
    /\ Idle("engage")
    /\ ExtInit
    /\ arg \in [target : 0..1, days : 0..MaxLinks, slots : 0..MaxLinks, form : BOOLEAN]
    /\ out = AttackLocals

AttackFrame == UNCHANGED <<cfg, ext, context, session, page, cycle, url_idx, scan, arg>>

\* target = self.target_url; if not target: return; page.goto(target)
Engage ==
    /\ pc = "engage"
    /\ IF arg.target = 0
       THEN out' = [out EXCEPT !.ret = "no_target"] /\ pc' = "attack_done"
       ELSE \E ok \in BOOLEAN :
              IF ok
              THEN out' = [out EXCEPT !.stage = "target"] /\ pc' = "attack"
              ELSE /\ out' = [out EXCEPT !.ret = "error", !.failures = @ + 1]
                   /\ pc' = "attack_done"
    /\ ev' = "engage"
    /\ UNCHANGED flags
    /\ AttackFrame

\* the rest of the try block: the captcha of each page (success, _ =
\* solve_from_page(...), which returns three values), the first day link, the
\* first time link, _fill_booking_form and _submit_form; an exception (raised:
\* one of a page operation) ends it in the handler (increment_failure)
Attack ==
    /\ pc = "attack"
    /\ pc' = "attack_done"
    /\ ev' = "attack"
    /\ \E filled \in BOOLEAN, submitted \in BOOLEAN, raised \in BOOLEAN :
         IF ~unpack_ok(3, 2) \/ raised
         THEN /\ out' = [out EXCEPT !.ret = IF ~unpack_ok(3, 2) THEN "ValueError" ELSE "error",
                                    !.failures = @ + 1]
              /\ UNCHANGED flags
         ELSE IF arg.days = 0
         THEN /\ out' = [out EXCEPT !.ret = "no_days"]
              /\ UNCHANGED flags
         ELSE IF arg.slots = 0
         THEN /\ out' = [out EXCEPT !.stage = "day", !.ret = "no_slots"]
              /\ UNCHANGED flags
         ELSE IF ~(arg.form /\ filled)
         THEN /\ out' = [out EXCEPT !.stage = "form", !.slots_found = arg.slots,
                                    !.ret = "not_filled"]
              /\ UNCHANGED flags
         ELSE /\ out' = [out EXCEPT !.stage = "submitted", !.slots_found = arg.slots,
                                    !.ret = IF submitted THEN "success" ELSE "failure"]
              /\ success' = (success \/ submitted)
              /\ stop_event' = (stop_event \/ submitted)
              /\ UNCHANGED paused
    /\ AttackFrame

AttackNext == Engage \/ Attack

SpecAttack == AttackInit /\ [][AttackNext]_vars

(***************************************************************************)
(* _submit_form (editbot.py), one action per attempt of its loop.          *)
(***************************************************************************)
Resps == { Resp(s, f, c, m) : s \in BOOLEAN, f \in BOOLEAN, c \in BOOLEAN, m \in BOOLEAN }

SubmitInit ==
    /\ \E c \in RunConfigs : solver = c[1] /\ dry_run = c[2]
    /\ FlowIdle("submit")
    /\ PoolIdle
    /\ sub = [NoSub EXCEPT !.result = "running"]
    /\ presolved = NoCap
    /\ relay = NoRelay
    /\ BootIdle

\* the session-invalid marker counts for nothing
after_submit_no_hard(r) ==
    IF r.succ THEN "success"
    ELSE IF r.form THEN "soft"
    ELSE "other"

\* step 5 of an attempt: Case A success, Case B back on the form, Case C
\* session invalid, in this order
after_submit(r) ==
    IF r.succ THEN "success"
    ELSE IF r.form THEN "soft"
    ELSE IF r.marker THEN "hard"
    ELSE "other"

\* the codes solve_from_page can give on the form's captcha
submit_solves ==
    [s \in Solvers |-> { Solved(o) : o \in UNION { solve_from_page(s, p) :
                                            p \in { q \in FormPages : q.captcha } } }]

\* the loop goes on after attempt n, or ends with False
NextAttempt(n) == IF n < submit_max_attempts THEN "running" ELSE "false"

SubmitAttempt ==
    /\ sub.result = "running"
    /\ LET n == sub.attempt + 1
           base == [NoSub EXCEPT !.attempt = n, !.result = NextAttempt(n)]
       IN  \E raised \in BOOLEAN, visible \in BOOLEAN, found \in BOOLEAN,
              solved \in submit_solves[solver], r \in Resps :
             LET chk == _check_success(IF visible THEN r.succ ELSE found)
                 won == IF raised THEN FALSE
                        ELSE IF ~visible THEN found
                        ELSE solved /\ after_submit(r) = "success"
             IN  /\ sub' =
                      IF raised THEN base
                      ELSE IF ~visible
                           THEN IF found THEN [base EXCEPT !.result = "true"] ELSE base
                      ELSE IF ~solved THEN [base EXCEPT !.refreshed = TRUE]
                      ELSE LET b == [base EXCEPT !.submitted = TRUE, !.last = r]
                           IN  CASE after_submit(r) = "success" -> [b EXCEPT !.result = "true"]
                                 [] after_submit(r) = "soft" ->
                                      [b EXCEPT !.refreshed = TRUE, !.refilled = r.cleared]
                                 [] after_submit(r) = "hard" -> [b EXCEPT !.result = "false"]
                                 [] OTHER -> b
                 /\ success' = (success \/ (won /\ chk.success))
                 /\ stop_event' = (stop_event \/ (won /\ chk.stop))
    /\ UNCHANGED <<poolv, presolved, relay, boot>>
    /\ FlowFrame

SubmitNext == SubmitAttempt

SpecSubmit == SubmitInit /\ [][SubmitNext]_vars

(***************************************************************************)
(* The solver's pre-solved cache (captcha.py): pre_solve, get_pre_solved,  *)
(* solve_from_page with the cache, and set_mode, called in any order with  *)
(* time passing in between.                                                *)
(***************************************************************************)
CacheInit ==
    /\ \E c \in RunConfigs : solver = c[1] /\ dry_run = c[2]
    /\ FlowIdle("cache")
    /\ PoolIdle
    /\ sub = NoSub
    /\ presolved = NoCap
    /\ relay = NoRelay
    /\ BootIdle

CacheFrame ==
    /\ UNCHANGED <<dry_run, sniper_id, flags, context, session, page, pc, ev, cycle, url_idx,
                   scan, unit>>
    /\ UNCHANGED <<poolv, sub, relay, boot>>

\* the solver as its flags make it behave; its mode field is read by no solve
behaves_as(s) ==
    [s EXCEPT !.mode = IF s.manual_only THEN "MANUAL"
                       ELSE IF s.auto_only THEN "AUTO" ELSE "HYBRID"]

\* EliteSniperV2.set_mode
set_mode(new_mode) ==
    /\ solver' = IF new_mode \in {"AUTO", "MANUAL", "HYBRID"}
                 THEN [solver EXCEPT !.mode = new_mode]
                 ELSE solver
    /\ presolved' = [presolved EXCEPT !.op = "set_mode", !.got = <<>>, !.expired = FALSE, !.res = NoRes]
    /\ CacheFrame

\* time passes while a code is cached
Lapse ==
    /\ presolved.code # <<>>
    /\ presolved' = [presolved EXCEPT !.age = Min(@ + MaxLapse, _pre_solve_timeout + MaxOverAge),
                          !.op = "lapse", !.got = <<>>, !.expired = FALSE, !.res = NoRes]
    /\ UNCHANGED solver
    /\ CacheFrame

\* the codes, with their status, that solve() can give pre_solve
pre_solve_results ==
    [s \in Solvers |->
       { <<r.code, r.status>> : r \in UNION { solve_results(s, img) : img \in ImageSizes \ {0} } }]

\* pre_solve: a code from solve() is cached with the time and the status
pre_solve ==
    /\ \E cached \in BOOLEAN, r \in pre_solve_results[behaves_as(solver)] :
         LET c == [presolved EXCEPT !.op = "pre_solve", !.got = <<>>, !.expired = FALSE,
                              !.res = NoRes]
         IN  presolved' = IF cached /\ r[1] # <<>>
                    THEN [c EXCEPT !.code = r[1], !.age = 0, !.status = r[2]]
                    ELSE c
    /\ UNCHANGED solver
    /\ CacheFrame

\* the expiry test left out
get_pre_solved_no_expiry(c) ==
    [ret |-> c.code, code |-> c.code, expired |-> FALSE]

\* get_pre_solved: the value returned, the code left in the cache, and whether
\* an expired code was met
get_pre_solved(c) ==
    IF c.code = <<>> THEN [ret |-> <<>>, code |-> <<>>, expired |-> FALSE]
    ELSE IF c.age > _pre_solve_timeout THEN [ret |-> <<>>, code |-> <<>>, expired |-> TRUE]
    ELSE [ret |-> c.code, code |-> c.code, expired |-> FALSE]

GetPreSolved ==
    /\ LET g == get_pre_solved(presolved)
       IN  presolved' = [presolved EXCEPT !.code = g.code, !.age = IF g.code = <<>> THEN 0 ELSE @,
                              !.got = g.ret, !.expired = g.expired,
                              !.op = "get_pre_solved", !.res = NoRes]
    /\ UNCHANGED solver
    /\ CacheFrame

Summary(o, cached) ==
    [success |-> o.success, code |-> o.code, status |-> o.status, relays |-> o.relays,
     needless |-> o.needless, dropped |-> o.dropped, from_cache |-> cached]

\* what solve_from_page can give when no cached code is used
sfp_summaries ==
    [s \in Solvers |-> [has_captcha \in BOOLEAN |->
       { Summary(o, FALSE) : o \in sfp_results[s][has_captcha] }]]

\* solve_from_page with the cache: the early returns leave the cache alone;
\* a cached code is cleared and filled; otherwise the captcha is solved
SolveFromPage ==
    /\ \E has_captcha \in BOOLEAN, fill_ok \in BOOLEAN :
       \E o \in sfp_summaries[behaves_as(solver)][has_captcha] :
         LET g == get_pre_solved(presolved)
             c == [presolved EXCEPT !.op = "solve_from_page", !.got = <<>>]
         IN  IF o.status \in {"CHECK_FAILED", "NO_CAPTCHA", "NO_INPUT", "ERROR"}
             THEN presolved' = [c EXCEPT !.expired = FALSE, !.res = o]
             ELSE IF g.ret # <<>>
             THEN presolved' = [c EXCEPT
                      !.expired = FALSE, !.code = <<>>, !.age = 0,
                      !.res = [NoRes EXCEPT !.success = fill_ok,
                                            !.code = IF fill_ok THEN g.ret ELSE <<>>,
                                            !.status = IF fill_ok THEN presolved.status
                                                       ELSE "FILL_ERROR",
                                            !.from_cache = TRUE]]
             ELSE presolved' = [c EXCEPT !.expired = g.expired, !.code = g.code, !.age = 0,
                                   !.res = o]
    /\ UNCHANGED solver
    /\ CacheFrame

CacheNext ==
    \/ \E m \in Modes : set_mode(m)
    \/ Lapse
    \/ pre_solve
    \/ GetPreSolved
    \/ SolveFromPage

SpecCache == CacheInit /\ [][CacheNext]_vars

(***************************************************************************)
(* The manual relay (captcha.py request_manual_solution, telegram_c2.py):  *)
(* the sessions share one solver, one TelegramCommander and its queue.     *)
(***************************************************************************)
RelayInit ==
    /\ \E c \in RunConfigs : solver = c[1] /\ dry_run = c[2]
    /\ FlowIdle("relay")
    /\ PoolIdle
    /\ sub = NoSub
    /\ presolved = NoCap
    /\ relay = NoRelay
    /\ BootIdle

RelayFrame ==
    /\ UNCHANGED <<poolv, sub, presolved, boot>>
    /\ UNCHANGED flags
    /\ FlowFrame

\* request_manual_solution up to the return of send_photo_bytes: nothing is
\* sent when the handler is disabled or the photo fails; else the image is
\* with the operator
Request(w) ==
    /\ relay.st[w] = "idle"
    /\ relay.reqs < MaxRequests
    /\ \E sent \in BOOLEAN :
         relay' = IF solver.manual /\ sent
                  THEN [relay EXCEPT !.st[w] = "sent", !.got[w] = 0,
                                     !.pending = @ \cup {w}, !.reqs = @ + 1]
                  ELSE [relay EXCEPT !.got[w] = 0, !.reqs = @ + 1]
    /\ RelayFrame

\* wait_for_captcha, "Clear old items": the queue is emptied under its mutex
ClearOld(w) ==
    /\ relay.st[w] = "sent"
    /\ relay' = [relay EXCEPT !.st[w] = "waiting", !.queue = <<>>, !.fresh = {}]
    /\ RelayFrame

\* _process_update: the operator's answer to the image of session i is put in
\* the queue as plain text
Reply(i) ==
    /\ i \in relay.pending
    /\ relay' = [relay EXCEPT !.queue = Append(@, i), !.pending = @ \ {i},
                              !.fresh = IF relay.st[i] = "idle" THEN @ ELSE @ \cup {i}]
    /\ RelayFrame

\* wait_for_captcha: captcha_reply_queue.get returns the oldest reply
WaitGet(w) ==
    /\ relay.st[w] = "waiting"
    /\ relay.queue # <<>>
    /\ relay' = [relay EXCEPT !.st[w] = "idle", !.got[w] = Head(relay.queue),
                              !.queue = Tail(@),
                              !.fresh = @ \ {w, Head(relay.queue)}]
    /\ RelayFrame

\* wait_for_captcha: queue.Empty after the timeout
WaitTimeout(w) ==
    /\ relay.st[w] = "waiting"
    /\ relay.queue = <<>>
    /\ relay' = [relay EXCEPT !.st[w] = "idle"]
    /\ RelayFrame

RelayNext ==
    \E w \in Workers :
       \/ Request(w)
       \/ ClearOld(w)
       \/ Reply(w)
       \/ WaitGet(w)
       \/ WaitTimeout(w)

SpecRelay == RelayInit /\ [][RelayNext]_vars

(***************************************************************************)
(* Steps of the flow that the properties below speak about.                *)
(***************************************************************************)
\* a goto of a month URL is issued
MonthNavStep ==
    \/ pc = "url_top" /\ pc' \in {"loop_top", "nav"}
    \/ pc = "nav" /\ pc' \in {"loop_top", "month_ret"}

\* a goto of any URL is issued
NavStep == MonthNavStep \/ (pc \in {"day_nav", "form_nav"} /\ pc' # pc)

\* create_context replaces an earlier session
RebirthStep == context.id > 0 /\ context'.id # context.id

\* the flow, not the operator, takes the step
FlowStep == <<pc, ev, session, context, page, cycle, url_idx, scan>>' #
            <<pc, ev, session, context, page, cycle, url_idx, scan>>

(***************************************************************************)
(* Properties.                                                             *)
(***************************************************************************)

C3_ExhaustionIsLocal ==
    /\ [](attempt <= 5 /\ (pc \in {"classify", "solve"} => attempt < 5))
    /\ [][(pc = "month_ret" /\ ev = "exhausted" /\ FlowStep)
            => (context' = context /\ session' = session
                /\ pc' = "url_top" /\ url_idx' = url_idx + 1)]_vars

C3_Witness ==
    pc = "month_ret" /\ ev = "exhausted" /\ attempt = 5 /\ url_idx < NUM_MONTHS - 1

\* C4: once a black image (payload below the threshold) was fetched in a
\* month scan the scan ends at once: no further solve, no relay request, no
\* captcha submit.
C4_BlackEndsScan == hist.black => (pc = "month_ret" /\ ~hist.after_black)

\* C5: for every image below 2000 bytes and every solver configuration
\* solve() returns BLACK_IMAGE and calls neither the remote API nor the
\* local OCR engine.
C5_SizeGate ==
    (pc = "unit_done" /\ arg.image_len < 2000)
        => (out.status = "BLACK_IMAGE" /\ out.cap_calls = 0 /\ out.ocr_calls = 0)

\* C6: no month navigation is issued by a session whose age is above
\* max-age: such a session is replaced first.
C6_NoNavAboveMaxAge == [][MonthNavStep => session.age <= SESSION_MAX_AGE]_vars

\* C7: a rebirth yields a session whose identifier differs from the one of
\* the session it replaces.
C7_RebirthNewId == [][RebirthStep => session'.session_id # session.session_id]_vars

\* C8: after two consecutive failed month navigations the remaining month
\* URLs of the cycle are skipped, and no month navigation is issued before
\* the context was recreated.
C8_CircuitBreaker ==
    [][/\ MonthNavStep => session.cnf < 2
       /\ (pc = "month_ret" /\ session.cnf >= 2 /\ FlowStep) => pc' = "cycle_sleep"
       /\ (session.cnf >= 2 /\ session'.cnf < 2)
            => (context'.id = context.id + 1 /\ context'.open)]_vars

C8_Witness ==
    /\ pc = "maintain"
    /\ session.cnf = 2
    /\ session.age <= SESSION_MAX_AGE
    /\ url_idx < NUM_MONTHS - 1

\* C9: a session that is POISONED, or idle for longer than max-idle, issues
\* no navigation: it is replaced first.
C9_NoNavWhenUnfit ==
    [][NavStep => (session.health # "POISONED" /\ session.idle <= SESSION_MAX_IDLE)]_vars

\* C10: once the stop flag is set the flow starts no further navigation, no
\* further captcha retry iteration and no further sleep.
RetryOrSleepStart ==
    \/ pc = "nav"
    \/ pc = "loop_top" /\ attempt > 0 /\ attempt < max_attempts
    \/ pc = "fc_top" /\ form.attempt > 0 /\ form.attempt < form_max_attempts(solver)
    \/ pc = "cycle_sleep"

C10_StopAtEveryBoundary == [][(stop_event /\ FlowStep) => ~RetryOrSleepStart]_vars

\* a scan cycle is started
CycleStartStep == pc \in {"cycle_top", "paused"} /\ pc' = "url_top"

\* C11: while the pause flag is set and the stop flag is not, the flow idles:
\* once it has a session it starts no scan cycle, issues no navigation, and
\* leaves its context, page and session as they are.
C11_PausedFlowIdles ==
    [][(paused /\ ~stop_event /\ context.open /\ FlowStep)
         => (/\ ~CycleStartStep
             /\ ~NavStep
             /\ context' = context
             /\ page' = page
             /\ session'.session_id = session.session_id
             /\ session'.cnf = session.cnf
             /\ session'.health = session.health)]_vars

Attackers == Workers \ {Scout}

\* C13: when both attackers have engaged the published target, exactly one of
\* them has passed through submission to success and the other has returned
\* failure; success is recorded once.
C13_ExactlyOneWins ==
    \A a \in Attackers, b \in Attackers :
       (a # b /\ wloc[a].result # "none" /\ wloc[b].result # "none")
          => /\ {wloc[a].result, wloc[b].result} = {"success", "failure"}
             /\ success

\* C20: the increments of a shared statistics counter exclude one another, so
\* no update is lost: the counter equals the number of increments completed.
C20_NoLostUpdate == shared.captchas_solved = shared.increments

\* the page after the latest submit
SoftPage(u) == u.submitted /\ ~u.last.succ /\ u.last.form
HardPage(u) == u.submitted /\ ~u.last.succ /\ ~u.last.form /\ u.last.marker

\* C14: every attempt of the submit stage is one of at most 5; when the form
\* is back after a submit (no success phrase) the captcha is refreshed, cleared
\* fields are refilled and the stage goes on while attempts remain; when the
\* page carries the session-invalid marker (and neither a success phrase nor
\* the form) the stage returns failure at once; a stage that has returned
\* makes no further attempt.
C14_SoftRetryHardStop ==
    [][sub' # sub =>
         /\ sub.result = "running"
         /\ sub'.attempt = sub.attempt + 1
         /\ sub'.attempt <= 5
         /\ SoftPage(sub') => /\ sub'.refreshed
                              /\ sub'.last.cleared => sub'.refilled
                              /\ sub'.result = IF sub'.attempt < 5 THEN "running" ELSE "false"
         /\ HardPage(sub') => sub'.result = "false"]_vars

C14_Witness ==
    /\ HardPage(sub)
    /\ sub.result = "false"
    /\ sub.attempt = 3
    /\ ~success

\* C15: a solve_from_page call contacts the relay only when the automatic
\* result is invalid or absent and the mode is not AUTO, and gives up no valid
\* automatic code when the relay does not reply.
C15_RelayOnlyWhenNeeded ==
    presolved.op = "solve_from_page"
       => /\ ~presolved.res.needless
          /\ ~presolved.res.dropped
          /\ solver.mode = "AUTO" => presolved.res.relays = 0

\* C16: the solver's manual_only and auto_only flags agree with its current
\* mode in every reachable state, also after set_mode.
C16_FlagsFollowMode ==
    /\ solver.manual_only = (solver.mode = "MANUAL")
    /\ solver.auto_only = (solver.mode = "AUTO")

\* C18: get_pre_solved consumes the cache: when it has returned a code the
\* cache is empty.
C18_GetConsumes ==
    (presolved.op = "get_pre_solved" /\ presolved.got # <<>>) => presolved.code = <<>>

\* C19: get_pre_solved returns no code cached more than 30 s earlier; meeting
\* an expired code it returns nothing and clears it; solve_from_page meeting an
\* expired code clears it and takes its result from a fresh solve.
C19_ExpiredNeverReturned ==
    [][/\ (presolved'.op = "get_pre_solved" /\ presolved'.got # <<>>)
            => (presolved.age <= 30 /\ presolved'.got = presolved.code)
       /\ (presolved'.op = "get_pre_solved" /\ presolved.code # <<>> /\ presolved.age > 30)
            => (presolved'.got = <<>> /\ presolved'.code = <<>>)
       /\ (presolved'.op = "solve_from_page" /\ presolved.code # <<>> /\ presolved.age > 30)
            => (~presolved'.res.from_cache /\ (presolved'.expired => presolved'.code = <<>>))]_vars

C19_Witness ==
    /\ presolved.op = "solve_from_page"
    /\ presolved.expired
    /\ presolved.code = <<>>
    /\ presolved.res.success
    /\ presolved.res.code # <<>>
    /\ ~presolved.res.from_cache

\* C17: each reply of the operator is delivered only to the session whose
\* image prompted it.
C17_ReplyToAsker ==
    \A w \in Workers : relay.got[w] # 0 => relay.got[w] = w

Cleaned(s) == replace_spaces(strip(s))
Repeated(s) == Cardinality(CharSet(s)) = 1
Poison(s) == Repeated(s) \/ s \in black_patterns

\* C22 as stated: every text of exactly 6 allowed characters is accepted as
\* VALID.
C22_SixIsValid ==
    (pc = "validated" /\ Len(arg) = 6 /\ CharSet(arg) \subseteq Allowed)
        => out = <<TRUE, "VALID">>

\* C22, amended: every text of exactly 6 allowed characters that are not all
\* the same character is accepted as VALID.
C22_SixVariedIsValid ==
    (pc = "validated" /\ Len(arg) = 6 /\ CharSet(arg) \subseteq Allowed /\ ~Repeated(arg))
        => out = <<TRUE, "VALID">>

C22_Witness ==
    /\ pc = "validated"
    /\ Len(arg) = 6
    /\ CharSet(arg) = {"a", "4"}
    /\ out = <<TRUE, "VALID">>

C24_SevenEightAging ==
    (pc = "validated" /\ Len(arg) \in {7, 8})
        => out = <<TRUE, IF Len(arg) = 7 THEN "AGING_7" ELSE "AGING_8">>

\* C24, amended: every text that is 7 or 8 characters long once its outer
\* whitespace and its blanks are removed, and is not one repeated character,
\* is accepted as AGING_7 or AGING_8 respectively.
C24_CleanedSevenEightAging ==
    (pc = "validated" /\ Len(Cleaned(arg)) \in {7, 8} /\ ~Repeated(Cleaned(arg)))
        => out = <<TRUE, IF Len(Cleaned(arg)) = 7 THEN "AGING_7" ELSE "AGING_8">>

C24_Witness ==
    /\ pc = "validated"
    /\ Len(arg) = 9
    /\ Len(Cleaned(arg)) = 8
    /\ out = <<TRUE, "AGING_8">>

C26_BlankIsEmpty ==
    (pc = "validated" /\ CharSet(arg) \subseteq Whitespace)
        => out = <<FALSE, "EMPTY">>

\* C27: cleaning a cleaned text changes nothing, and a cleaned text holds
\* allowed letters and digits only.
C27_CleanIdempotent ==
    [][ /\ pc' \in {"cleaned", "cleaned_twice"} => CharSet(out') \subseteq Allowed
        /\ pc' = "cleaned_twice" => out' = out ]_vars

C27_Witness ==
    /\ pc = "cleaned_twice"
    /\ {" ", "\t", "-"} \subseteq CharSet(arg)
    /\ out # <<>>

\* C28: when a required configuration field is missing the sniper is built
\* once, the construction raises, and neither a second construction nor a run
\* follows.
C28_MissingConfigNotRetried ==
    missing => (supervisor.built <= 1 /\ supervisor.runs = 0)

\* C29: under every interleaving of start_session, stop_session and the end
\* of the run thread, at most one run thread exists; a start_session made
\* while a session is running returns False and builds no sniper; a
\* stop_session made while no session is running returns False.
C29_OneRunThread ==
    [][ /\ Cardinality(manager'.threads) <= 1
        /\ (manager'.calls # manager.calls /\ manager.is_running
              /\ manager'.ret \in {"start_true", "start_false"})
             => /\ manager'.ret = "start_false"
                /\ manager'.built = manager.built
                /\ manager'.threads = manager.threads
                /\ manager'.current_sniper = manager.current_sniper
        /\ (manager'.calls # manager.calls /\ ~manager.is_running
              /\ manager'.ret \in {"stop_true", "stop_false"})
             => /\ manager'.ret = "stop_false"
                /\ manager'.stopped = manager.stopped ]_vars

C29_Witness ==
    /\ manager.is_running
    /\ manager.ret = "start_false"
    /\ manager.built = 2
    /\ manager.threads = {2}
    /\ 1 \in manager.stopped

\* C30: within one flow the stages are entered in order only.  The day scan
\* starts only from a month page classified SLOTS_FOUND that shows a day link;
\* the booking form is opened only from a day page that shows a slot link; the
\* form is submitted only after the form was filled and either shows no captcha
\* or had its captcha solved; a day page without a slot link sends the flow
\* back as a failure, with no success recorded.
C30_StagesInOrder ==
    [][ /\ (pc' = "day_nav" /\ pc # "day_nav")
             => (pc = "classify" /\ page'.days > 0 /\ day_link' \in 1..page'.days)
        /\ (pc' = "form_nav" /\ pc # "form_nav")
             => (pc = "day_nav" /\ page'.slots > 0)
        /\ (pc' = "fc_top" /\ pc # "fc_top")
             => (pc = "form_nav" /\ page'.captcha)
        /\ (pc' = "form_submit" /\ pc # "form_submit")
             => \/ pc = "form_nav" /\ ~page'.captcha
                \/ pc = "fc_top" /\ ev' = "form_solved"
        /\ (pc = "day_nav" /\ pc' # "day_nav" /\ page'.slots = 0)
             => (pc' = "month_ret" /\ success' = success) ]_vars

C30_Witness ==
    /\ pc = "form_submit"
    /\ ev = "form_solved"
    /\ page.captcha
    /\ day_link > 0

C32_ShortReadingRetried ==
    (pc = "sfp_done" /\ solver.auto_only /\ out.short > 0 /\ out.solves = out.short
       /\ out.ret \notin {"NO_IMAGE", "none"})
        => (out.solves = internal_max_retries /\ out.reloads = internal_max_retries - 1)

\* C35: a call of solve_from_page sends at most one captcha image to the human
\* relay, and once a human reply was received that reply is the code filled
\* into the captcha input.
C35_OneRelayPerCall ==
    /\ out.relays <= 1
    /\ (pc = "sfp_done" /\ out.replied)
         => (out.filled \in ManualReplies \/ out.ret = "FILL_ERROR")

\* C33: solve_form_captcha_with_retry makes at most max_attempts calls of
\* solve_from_page; the captcha is reloaded once after every failed attempt
\* but the last, so that the reloads made are always one fewer than the
\* attempts made once the call has returned; success comes only with a code;
\* RELOAD_FAILED is returned right after the attempt whose reload failed; and
\* only a full run of max_attempts failed attempts ends in
\* MAX_ATTEMPTS_REACHED.
C33_BoundedFormRetry ==
    /\ out.solves <= form_max_attempts(solver)
    /\ pc = "form_loop" =>
         /\ out.solves = out.attempt
         /\ out.reloads = IF out.attempt = form_max_attempts(solver)
                          THEN out.attempt - 1 ELSE out.attempt
    /\ pc = "form_done" =>
         /\ out.reloads = out.solves - 1
         /\ out.success <=> out.code # <<>>
         /\ out.ret = "RELOAD_FAILED" => out.solves < form_max_attempts(solver)
         /\ out.ret = "MAX_ATTEMPTS_REACHED" => out.solves = form_max_attempts(solver)

C33_Witness ==
    /\ pc = "form_done"
    /\ out.ret = "MAX_ATTEMPTS_REACHED"
    /\ out.solves = FORM_MAX_ATTEMPTS
    /\ out.reloads = FORM_MAX_ATTEMPTS - 1

\* C36: slot_event goes from set to clear only when some attacker has engaged
\* the target that the scout published.
C36_SignalKeptUntilAttack ==
    [][(shared.slot_event /\ ~shared'.slot_event)
         => \E a \in Attackers : wloc[a].result # "none"]_vars

\* C34: an attacker that has loaded the signalled target, where the pages show
\* days, time slots and the form, has gone through day selection and slot
\* selection to the submission of the form when its attack is over, unless a
\* page operation failed.
C34_AttackReachesSubmission ==
    (/\ pc = "attack_done"
     /\ out.stage # "none"
     /\ out.ret # "error"
     /\ arg.days > 0 /\ arg.slots > 0 /\ arg.form)
        => out.stage \in {"form", "submitted"}

\* C37: once stop_event is set, a _run_single_session that has its context
\* creates no other one: the context stays the one it was, or is closed.
C37_NoContextAfterStop ==
    [][(stop_event /\ context.id > 0) => context'.id = context.id]_vars

\* C38: get_status never fails, whatever the run thread does between its two
\* reads: it returns IDLE or RUNNING and never reads the mode of a
\* current_sniper that was reset to None.
C38_StatusNeverFails ==
    manager.ret # "AttributeError"

\* C39: wait_for_captcha discards stale replies only: when a request empties
\* the queue, the queue holds no reply to the image that this request has sent.
C39_FreshReplyKept ==
    [][\A w \in Workers :
         (relay.st[w] = "sent" /\ relay'.st[w] = "waiting") => w \notin relay.fresh]_vars

=============================================================================
